---- MODULE Spec2Model ----
(***************************************************************************)
(* Gesture interaction engine of the hand-gesture-control repository:      *)
(* finger-state extraction (hand_detector.py), gesture classification and  *)
(* label smoothing (gesture_recognition.py), volume smoothing              *)
(* (volume_control.py).                                                    *)
(*                                                                         *)
(* A landmark list is the Python list of [id, x, y] entries; Python index  *)
(* i of a list is index i+1 of the TLA+ sequence.                          *)
(***************************************************************************)
EXTENDS Integers, Sequences, FiniteSets, TLC

VARIABLES
    session,          \* which application main.py has launched
    op,               \* the method that ran last ("none" before the first call)
    exc,              \* "none", or the exception the last call raised or caught
    landmark_list,    \* argument of the last fingers_up / recognize_gesture call
    fingers,          \* return value of the last fingers_up call
    gesture,          \* return value of the last recognize_gesture call
    gesture_history,  \* GestureRecognizer.gesture_history
    smoothed_gesture, \* return value of the last smooth_gesture call
    gesture_pushes,   \* history variable: every label passed to smooth_gesture
    volume_history,   \* VolumeController.volume_history
    smoothed_volume,  \* return value of the last smooth_volume call
    volume_pushes,    \* history variable: every value passed to smooth_volume
    now,              \* time.time(), in ticks of 0.05 s
    last_click_time,  \* VirtualMouse.last_click_time, in ticks
    clicked,          \* return value of the last detect_left_click call
    click_log,        \* history variable: <<time, pinch, fired>> of every detect_left_click call
    scroll_mode,      \* VirtualMouse.scroll_mode
    scroll_start_y,   \* VirtualMouse.scroll_start_y (0 also stands for "no anchor")
    prev_x,           \* VirtualMouse.prev_x, an exact fraction <<numerator, denominator>>
    prev_y,           \* VirtualMouse.prev_y, likewise
    index_finger_pos, \* argument of the last get_cursor_position call
    cursor_target,    \* locals x, y of get_cursor_position after np.clip (fractions)
    cursor_pos,       \* return value of the last get_cursor_position call
    cursor_calls,     \* history variable: number of get_cursor_position calls
    mode,             \* mode of the last frame of the pointer loop
    emitted,          \* calls the last frame made to pyautogui, in order: <<name, a, b>>
    frame_no,         \* history variable: number of frames the running loop has processed
    canvas,           \* VirtualPainter.canvas: the segments cv2.line wrote since the last fill(0)
    current_color,    \* VirtualPainter.current_color, a <<b, g, r>> triple
    painter_prev,     \* VirtualPainter.(prev_x, prev_y)
    drawing,          \* VirtualPainter.drawing
    cleared_at,       \* history variable: frame_no at the last clear_canvas call
    frame_pixel,      \* one pixel of the camera frame handed to the merge
    canvas_pixel,     \* the pixel of the canvas at the same place
    output_pixel,     \* the pixel of the merged image at the same place
    current_volume,   \* VolumeController.current_volume
    volume_available, \* VolumeController.volume_available
    volume_returned,  \* return value of the last set_volume / get_current_volume call
    dispatched,       \* history variable: every percentage handed to the audio backend
    distance          \* argument of the last set_volume call

vars == <<session, op, exc, landmark_list, fingers, gesture,
          gesture_history, smoothed_gesture, gesture_pushes,
          volume_history, smoothed_volume, volume_pushes,
          now, last_click_time, clicked, click_log, scroll_mode, scroll_start_y,
          prev_x, prev_y, index_finger_pos, cursor_target, cursor_pos, cursor_calls,
          mode, emitted, frame_no,
          canvas, current_color, painter_prev, drawing, cleared_at,
          frame_pixel, canvas_pixel, output_pixel,
          current_volume, volume_available, volume_returned, dispatched, distance>>

gestureSmoothVars == <<gesture_history, smoothed_gesture, gesture_pushes>>
volumeSmoothVars == <<volume_history, smoothed_volume, volume_pushes>>
clickVars == <<last_click_time, clicked, click_log>>
scrollVars == <<scroll_mode, scroll_start_y>>
cursorVars == <<prev_x, prev_y, index_finger_pos, cursor_target, cursor_pos, cursor_calls>>
frameVars == <<mode, emitted, frame_no>>
pointerVars == <<now, clickVars, scrollVars, cursorVars, frameVars>>
painterVars == <<canvas, current_color, painter_prev, drawing, cleared_at>>
compositeVars == <<frame_pixel, canvas_pixel, output_pixel>>
volumeCtlVars == <<current_volume, volume_available, volume_returned, dispatched, distance>>
appVars == <<painterVars, compositeVars, volumeCtlVars>>

(***************************************************************************)
(* Bounds of the model.                                                    *)
(***************************************************************************)
MaxGesturePushes == 7
MaxVolumePushes == 10

(***************************************************************************)
(* Landmark lists.                                                         *)
(***************************************************************************)
NumLandmarks == 21

\* Python landmark_list[i], landmark_list[i][1], landmark_list[i][2]
LmAt(L, i) == L[i + 1]
LmX(L, i) == L[i + 1][2]
LmY(L, i) == L[i + 1][3]

\* Pixel coordinates the detector is made to report in the model.  The IP/PIP
\* joints (3, 6, 10, 14, 18) rest at (JointX, JointY); the tips move around
\* them, which gives every tip/joint relation (above, level, below).
Joint == <<100, 100>>
JointX == Joint[1]
JointY == Joint[2]
ThumbTipXs == {90, 100, 110}
ThumbTipYs == {80, 100, 120}
IndexTipXs == {100, 130, 200}
IndexTipYs == {80, 100, 120}
OtherTipYs == {80, 100}

\* One 21-point hand as find_position builds it: entry i is [i, cx, cy].
MakeHand(x4, y4, x8, y8, y12, y16, y20) ==
    [k \in 1..NumLandmarks |->
        LET i == k - 1 IN
        <<i,
          CASE i = 4 -> x4
            [] i = 8 -> x8
            [] OTHER -> JointX,
          CASE i = 4 -> y4
            [] i = 8 -> y8
            [] i = 12 -> y12
            [] i = 16 -> y16
            [] i = 20 -> y20
            [] OTHER -> JointY>>]

Hands ==
    {MakeHand(x4, y4, x8, y8, y12, y16, y20) :
        x4 \in ThumbTipXs, y4 \in ThumbTipYs, x8 \in IndexTipXs,
        y8 \in IndexTipYs, y12 \in OtherTipYs, y16 \in OtherTipYs,
        y20 \in OtherTipYs}

\* find_position returns [] (no hand) or the 21 landmarks of the hand.
find_position == {<< >>} \cup Hands

\* Lists that are neither empty nor 21 long: a hand cut short, or one entry
\* too long.
ShortLens == {1, 4, 5, 8, 9, 20}
MalformedLists ==
    {SubSeq(h, 1, n) : h \in Hands, n \in ShortLens}
        \cup {Append(h, <<NumLandmarks, JointX, JointY>>) : h \in Hands}

(***************************************************************************)
(* HandDetector.fingers_up                                                 *)
(***************************************************************************)
tip_ids == <<8, 12, 16, 20>>

\* The list indices fingers_up reads, in the order it reads them.
FingersUpReads == <<4, 3, 8, 6, 12, 10, 16, 14, 20, 18>>

\* Python raises IndexError on the first read past the end of the list.
fingers_up_raises(L) ==
    /\ Len(L) # 0
    /\ \E k \in 1..Len(FingersUpReads) : FingersUpReads[k] >= Len(L)

ThumbFlag(L) == IF LmX(L, 4) < LmX(L, 3) THEN 1 ELSE 0

\* Mutant: a tip level with its joint counts as up.
FingerFlag_level_is_up(L, tip_id) == IF LmY(L, tip_id) <= LmY(L, tip_id - 2) THEN 1 ELSE 0

FingerFlag(L, tip_id) == IF LmY(L, tip_id) < LmY(L, tip_id - 2) THEN 1 ELSE 0

\* The returned list, for a call that does not raise.
fingers_up(L) ==
    IF Len(L) = 0
    THEN << >>
    ELSE <<ThumbFlag(L)>> \o [k \in 1..Len(tip_ids) |-> FingerFlag(L, tip_ids[k])]

(***************************************************************************)
(* GestureRecognizer.recognize_gesture                                     *)
(***************************************************************************)
\* Mutant: counts the flags that are down.
Count1_counts_zeros(fs) == Cardinality({k \in 1..Len(fs) : fs[k] = 0})

\* fingers.count(1)
Count1(fs) == Cardinality({k \in 1..Len(fs) : fs[k] = 1})

\* Square of _calculate_distance(point1, point2); the coordinates are
\* integers, so sqrt(d2) < 40 exactly when d2 < 40 * 40.
DistanceSq(p1, p2) == (p1[2] - p2[2]) * (p1[2] - p2[2]) + (p1[3] - p2[3]) * (p1[3] - p2[3])

OkDistance == 40

\* Mutant: a distance of exactly 40 counts as close.
CloseTogether_inclusive(L) == DistanceSq(LmAt(L, 4), LmAt(L, 8)) <= OkDistance * OkDistance

CloseTogether(L) == DistanceSq(LmAt(L, 4), LmAt(L, 8)) < OkDistance * OkDistance

\* Mutant: the comparison the other way round.
ThumbTipBelowJoint_inverted(L) == LmY(L, 4) < LmY(L, 3)

\* landmark_list[4][2] > landmark_list[3][2]: larger y is lower in the image.
ThumbTipBelowJoint(L) == LmY(L, 4) > LmY(L, 3)

\* f"{total_fingers} Fingers Up"
FingersUpLabel(n) == ToString(n) \o " Fingers Up"

recognize_gesture_raises(L) == fingers_up_raises(L)

\* Mutant: the Rock Sign test placed before the OK Sign test.
recognize_gesture_rock_first(L) ==
    IF Len(L) = 0 THEN "No Hand"
    ELSE
    LET fs == fingers_up(L)
        total_fingers == Count1(fs)
        thumb == fs[1] = 1
        index == fs[2] = 1
        middle == fs[3] = 1
        ring == fs[4] = 1
        pinky == fs[5] = 1
    IN
    IF index /\ middle /\ ~ring /\ ~pinky /\ ~thumb THEN "Peace Sign"
    ELSE IF thumb /\ ~index /\ ~middle /\ ~ring /\ ~pinky THEN "Thumbs Up"
    ELSE IF /\ ~thumb /\ ~index /\ ~middle /\ ~ring /\ ~pinky
            /\ ThumbTipBelowJoint(L) THEN "Thumbs Down"
    ELSE IF index /\ pinky /\ ~middle /\ ~ring THEN "Rock Sign"
    ELSE IF thumb /\ index /\ CloseTogether(L) THEN "OK Sign"
    ELSE IF total_fingers = 0 THEN "Fist"
    ELSE IF total_fingers = 5 THEN "Open Palm"
    ELSE IF index /\ ~middle /\ ~ring /\ ~pinky /\ ~thumb THEN "Pointing"
    ELSE IF index /\ middle /\ ring /\ ~pinky /\ ~thumb THEN "Three Fingers"
    ELSE IF index /\ middle /\ ring /\ pinky /\ ~thumb THEN "Four Fingers"
    ELSE IF thumb /\ pinky /\ ~index /\ ~middle /\ ~ring THEN "Call Me"
    ELSE IF thumb /\ index /\ ~middle /\ ~ring /\ ~pinky THEN "Finger Gun"
    ELSE FingersUpLabel(total_fingers)

\* The returned label, for a call that does not raise.
recognize_gesture(L) ==
    IF Len(L) = 0 THEN "No Hand"
    ELSE
    LET fs == fingers_up(L)
        total_fingers == Count1(fs)
        thumb == fs[1] = 1
        index == fs[2] = 1
        middle == fs[3] = 1
        ring == fs[4] = 1
        pinky == fs[5] = 1
    IN
    IF index /\ middle /\ ~ring /\ ~pinky /\ ~thumb THEN "Peace Sign"
    ELSE IF thumb /\ ~index /\ ~middle /\ ~ring /\ ~pinky THEN "Thumbs Up"
    ELSE IF /\ ~thumb /\ ~index /\ ~middle /\ ~ring /\ ~pinky
            /\ ThumbTipBelowJoint(L) THEN "Thumbs Down"
    ELSE IF thumb /\ index /\ CloseTogether(L) THEN "OK Sign"
    ELSE IF index /\ pinky /\ ~middle /\ ~ring THEN "Rock Sign"
    ELSE IF total_fingers = 0 THEN "Fist"
    ELSE IF total_fingers = 5 THEN "Open Palm"
    ELSE IF index /\ ~middle /\ ~ring /\ ~pinky /\ ~thumb THEN "Pointing"
    ELSE IF index /\ middle /\ ring /\ ~pinky /\ ~thumb THEN "Three Fingers"
    ELSE IF index /\ middle /\ ring /\ pinky /\ ~thumb THEN "Four Fingers"
    ELSE IF thumb /\ pinky /\ ~index /\ ~middle /\ ~ring THEN "Call Me"
    ELSE IF thumb /\ index /\ ~middle /\ ~ring /\ ~pinky THEN "Finger Gun"
    ELSE FingersUpLabel(total_fingers)

(***************************************************************************)
(* Calls of the two pure methods on the list the frame delivered.  A call  *)
(* that raises returns nothing: the previous return value stays and exc    *)
(* records the exception.  Neither method assigns to any attribute.        *)
(***************************************************************************)
CallFingersUp ==
    /\ op' = "fingers_up"
    /\ IF fingers_up_raises(landmark_list)
       THEN exc' = "IndexError" /\ UNCHANGED fingers
       ELSE exc' = "none" /\ fingers' = fingers_up(landmark_list)
    /\ UNCHANGED <<appVars, session, landmark_list, gesture, gestureSmoothVars, volumeSmoothVars, pointerVars>>

CallRecognizeGesture ==
    /\ op' = "recognize_gesture"
    /\ IF recognize_gesture_raises(landmark_list)
       THEN exc' = "IndexError" /\ UNCHANGED gesture
       ELSE exc' = "none" /\ gesture' = recognize_gesture(landmark_list)
    /\ UNCHANGED <<appVars, session, landmark_list, fingers, gestureSmoothVars, volumeSmoothVars, pointerVars>>

\* time.time() counts from 1970, so every reading of the clock is far above
\* click_cooldown; the model starts the clock at an arbitrary such reading.
StartTimes == {1000}

\* State after VirtualMouse.__init__.
InitMouse ==
    /\ now \in StartTimes
    /\ last_click_time = 0
    /\ clicked = FALSE
    /\ click_log = << >>
    /\ scroll_mode = FALSE
    /\ scroll_start_y = 0
    /\ prev_x = <<0, 1>>
    /\ prev_y = <<0, 1>>
    /\ index_finger_pos = <<0, 0>>
    /\ cursor_target = <<<<0, 1>>, <<0, 1>>>>
    /\ cursor_pos = <<0, 0>>
    /\ cursor_calls = 0
    /\ mode = "none"
    /\ emitted = << >>
    /\ frame_no = 0

\* The palette of VirtualPainter.__init__, as (b, g, r) triples.
colors ==
    [red |-> <<0, 0, 255>>, green |-> <<0, 255, 0>>, blue |-> <<255, 0, 0>>,
     yellow |-> <<0, 255, 255>>, white |-> <<255, 255, 255>>, eraser |-> <<0, 0, 0>>]

\* State after VirtualPainter.__init__.  The canvas is None until the first
\* frame allocates it all black; both are the empty sequence of segments.
InitPainter ==
    /\ canvas = << >>
    /\ current_color = colors.blue
    /\ painter_prev = <<0, 0>>
    /\ drawing = FALSE
    /\ cleared_at = 0
    /\ frame_pixel = <<0, 0, 0>>
    /\ canvas_pixel = <<0, 0, 0>>
    /\ output_pixel = <<0, 0, 0>>

\* State after VolumeController.__init__: whatever the backend reported,
\* line 34 sets current_volume to 50; the backend was found or it was not.
InitVolumeController ==
    /\ current_volume = 50
    /\ volume_available \in (IF session = "volume" THEN BOOLEAN ELSE {FALSE})
    /\ volume_returned = 0
    /\ dispatched = << >>
    /\ distance = 0

\* State after construction of the recognizer and of the volume controller.
InitEngine ==
    /\ op = "none"
    /\ exc = "none"
    /\ fingers = << >>
    /\ gesture = ""
    /\ gesture_history = << >>
    /\ smoothed_gesture = ""
    /\ gesture_pushes = << >>
    /\ volume_history = << >>
    /\ smoothed_volume = 0
    /\ volume_pushes = << >>
    /\ InitMouse
    /\ InitPainter
    /\ InitVolumeController

NextClassify == CallFingersUp \/ CallRecognizeGesture

\* The classifier on what the detector delivers.
InitClassify == session = "gesture" /\ landmark_list \in find_position /\ InitEngine
SpecClassify == InitClassify /\ [][NextClassify]_vars

\* The classifier on every list a caller can pass, malformed ones included.
AnyList == find_position \cup MalformedLists
InitAnyList == session = "gesture" /\ landmark_list \in AnyList /\ InitEngine
SpecAnyList == InitAnyList /\ [][NextClassify]_vars

(***************************************************************************)
(* GestureRecognizer.smooth_gesture                                        *)
(***************************************************************************)
GestureRecognizer_history_length == 5

Range(h) == {h[k] : k \in 1..Len(h)}

\* history.count(x)
Count(h, x) == Cardinality({k \in 1..Len(h) : h[k] = x})

\* Mutant: pop() instead of pop(0), which drops the newest label.
push_gesture_pop_newest(h, current_gesture) ==
    LET appended == Append(h, current_gesture)
    IN IF Len(appended) > GestureRecognizer_history_length
       THEN SubSeq(appended, 1, Len(appended) - 1)
       ELSE appended

\* Mutant: pop(0) already when the list has reached history_length.
push_gesture_pop_at_length(h, current_gesture) ==
    LET appended == Append(h, current_gesture)
    IN IF Len(appended) >= GestureRecognizer_history_length
       THEN Tail(appended)
       ELSE appended

\* append, then pop(0) when the list is longer than history_length
push_gesture(h, current_gesture) ==
    LET appended == Append(h, current_gesture)
    IN IF Len(appended) > GestureRecognizer_history_length
       THEN Tail(appended)
       ELSE appended

\* Mutant: min instead of max.
MostCommon_min(h) == {x \in Range(h) : \A y \in Range(h) : Count(h, x) <= Count(h, y)}

\* max(set(history), key=history.count) returns the first label of highest
\* count in the iteration order of the set.  That order follows the string
\* hashes, which differ from one interpreter run to the next, so among tied
\* labels any one can be the result.
MostCommon(h) == {x \in Range(h) : \A y \in Range(h) : Count(h, x) >= Count(h, y)}

\* Mutant: reports "No Hand" until the window is full.
smooth_gesture_warm_up(h, current_gesture) ==
    IF Len(h) < GestureRecognizer_history_length THEN {"No Hand"} ELSE MostCommon(h)

\* The values smooth_gesture can return for the window h after the push.
smooth_gesture(h, current_gesture) ==
    IF Len(h) > 0 THEN MostCommon(h) ELSE {current_gesture}

\* Labels handed to smooth_gesture in the model.
PushedLabels == {"Fist", "Peace Sign", "Open Palm"}

CallSmoothGesture ==
    /\ session = "gesture"
    /\ Len(gesture_pushes) < MaxGesturePushes
    /\ \E current_gesture \in PushedLabels :
        /\ gesture_history' = push_gesture(gesture_history, current_gesture)
        /\ smoothed_gesture' \in smooth_gesture(gesture_history', current_gesture)
        /\ gesture_pushes' = Append(gesture_pushes, current_gesture)
    /\ op' = "smooth_gesture"
    /\ exc' = "none"
    /\ UNCHANGED <<appVars, session, landmark_list, fingers, gesture, volumeSmoothVars, pointerVars>>

\* smooth_gesture on a stream of two labels, long enough for a window full
\* of one label to be followed by three pushes of the other.
ResponseLabels == {"Fist", "Open Palm"}

MaxResponsePushes == 8

CallSmoothGestureOfTwo ==
    /\ session = "gesture"
    /\ Len(gesture_pushes) < MaxResponsePushes
    /\ \E current_gesture \in ResponseLabels :
        /\ gesture_history' = push_gesture(gesture_history, current_gesture)
        /\ smoothed_gesture' \in smooth_gesture(gesture_history', current_gesture)
        /\ gesture_pushes' = Append(gesture_pushes, current_gesture)
    /\ op' = "smooth_gesture"
    /\ exc' = "none"
    /\ UNCHANGED <<appVars, session, landmark_list, fingers, gesture, volumeSmoothVars, pointerVars>>

InitResponse == session = "gesture" /\ landmark_list = << >> /\ InitEngine
SpecResponse == InitResponse /\ [][CallSmoothGestureOfTwo]_vars

(***************************************************************************)
(* VolumeController.smooth_volume                                          *)
(***************************************************************************)
VolumeController_history_length == 8

\* Mutant: the window is never trimmed.
push_volume_keeps_all(h, vol_percentage) == Append(h, vol_percentage)

push_volume(h, vol_percentage) ==
    LET appended == Append(h, vol_percentage)
    IN IF Len(appended) > VolumeController_history_length
       THEN Tail(appended)
       ELSE appended

RECURSIVE Sum(_)
Sum(h) == IF Len(h) = 0 THEN 0 ELSE h[1] + Sum(Tail(h))

\* Mutant: the sum of the window, not its mean.
smooth_volume_sums(h, vol_percentage) ==
    IF Len(h) > 0 THEN Sum(h) ELSE vol_percentage

\* int(np.mean(history)) for non-negative whole percentages: the quotient
\* truncated.
smooth_volume(h, vol_percentage) ==
    IF Len(h) > 0 THEN Sum(h) \div Len(h) ELSE vol_percentage

\* Percentages handed to smooth_volume in the model.
PushedPercentages == {0, 75}

CallSmoothVolume ==
    /\ session = "volume"
    /\ Len(volume_pushes) < MaxVolumePushes
    /\ \E vol_percentage \in PushedPercentages :
        /\ volume_history' = push_volume(volume_history, vol_percentage)
        /\ smoothed_volume' = smooth_volume(volume_history', vol_percentage)
        /\ volume_pushes' = Append(volume_pushes, vol_percentage)
    /\ op' = "smooth_volume"
    /\ exc' = "none"
    /\ UNCHANGED <<appVars, session, landmark_list, fingers, gesture, gestureSmoothVars, pointerVars>>

\* The two smoothing windows; main.py runs one application at a time.
InitSmooth ==
    /\ session \in {"gesture", "volume"}
    /\ landmark_list = << >>
    /\ InitEngine
NextSmooth == CallSmoothGesture \/ CallSmoothVolume
SpecSmooth == InitSmooth /\ [][NextSmooth]_vars

(***************************************************************************)
(* VirtualMouse.detect_left_click                                          *)
(*                                                                         *)
(* Time is counted in ticks of 0.05 s, so click_cooldown = 0.3 s is 6      *)
(* ticks, and the clock readings of the model are whole ticks.             *)
(***************************************************************************)
click_threshold == 40
click_cooldown == 6

\* Mutant: the distance of the two tips is not looked at.
PinchDistance_any(L) == TRUE

\* math.hypot(...) < self.click_threshold, on the integer pixel coordinates
PinchDistance(L) == DistanceSq(LmAt(L, 4), LmAt(L, 8)) < click_threshold * click_threshold

\* Mutant: a click exactly click_cooldown after the last one is still refused.
InCooldown_inclusive(current_time, last) == current_time - last <= click_cooldown

\* current_time - self.last_click_time < self.click_cooldown
InCooldown(current_time, last) == current_time - last < click_cooldown

\* The return value.
detect_left_click(L, current_time, last) ==
    IF Len(L) < 21 THEN FALSE
    ELSE IF InCooldown(current_time, last) THEN FALSE
    ELSE PinchDistance(L)

\* Mutant: the time of the click is not stored.
last_click_time_after_never_stored(L, current_time, last) == last

\* self.last_click_time after the call
last_click_time_after(L, current_time, last) ==
    IF detect_left_click(L, current_time, last) THEN current_time ELSE last

\* Lists handed to detect_left_click in the model: tips 10 px apart, exactly
\* 40 px apart, 100 px apart, and a list of 20 entries.
PinchHand == MakeHand(90, 80, 100, 80, 100, 100, 100)
ClickLists ==
    {PinchHand,
     MakeHand(90, 80, 130, 80, 100, 100, 100),
     MakeHand(100, 80, 200, 80, 100, 100, 100),
     SubSeq(PinchHand, 1, 20)}

\* Ticks between two readings of the clock.
ClickGaps == {3, 4, 6}

MaxClickCalls == 3

CallDetectLeftClick ==
    /\ Len(click_log) < MaxClickCalls
    /\ \E L \in ClickLists, gap \in ClickGaps :
        LET current_time == now + gap
            fired == detect_left_click(L, current_time, last_click_time)
        IN /\ now' = current_time
           /\ landmark_list' = L
           /\ clicked' = fired
           /\ last_click_time' = last_click_time_after(L, current_time, last_click_time)
           /\ click_log' = Append(click_log,
                  [t |-> current_time,
                   pinch |-> Len(L) >= 21 /\ PinchDistance(L),
                   fired |-> fired])
    /\ op' = "detect_left_click"
    /\ exc' = "none"
    /\ UNCHANGED <<appVars, session, fingers, gesture, gestureSmoothVars, volumeSmoothVars,
                   scrollVars, cursorVars, frameVars>>

\* The click debouncer on its own.
InitClick == session = "mouse" /\ landmark_list = << >> /\ InitEngine
SpecClick == InitClick /\ [][CallDetectLeftClick]_vars

(***************************************************************************)
(* VirtualMouse.get_cursor_position                                        *)
(*                                                                         *)
(* The method computes in floating point.  The model computes the same     *)
(* expressions exactly, on fractions <<numerator, denominator>> in lowest  *)
(* terms with a positive denominator.                                      *)
(***************************************************************************)
RECURSIVE GCD(_, _)
GCD(a, b) == IF b = 0 THEN a ELSE GCD(b, a % b)

Abs(n) == IF n < 0 THEN -n ELSE n

Frac(n, d) ==
    LET g == GCD(Abs(n), d) IN <<n \div g, d \div g>>

FracInt(n) == <<n, 1>>

FracSub(p, q) ==
    LET g == GCD(p[2], q[2])
    IN Frac(p[1] * (q[2] \div g) - q[1] * (p[2] \div g), (p[2] \div g) * q[2])

FracAdd(p, q) ==
    LET g == GCD(p[2], q[2])
    IN Frac(p[1] * (q[2] \div g) + q[1] * (p[2] \div g), (p[2] \div g) * q[2])

FracMul(p, q) == Frac(p[1] * q[1], p[2] * q[2])

FracDivInt(p, n) == Frac(p[1], p[2] * n)

FracLess(p, q) ==
    LET g == GCD(p[2], q[2]) IN p[1] * (q[2] \div g) < q[1] * (p[2] \div g)

FracLeq(p, q) ==
    LET g == GCD(p[2], q[2]) IN p[1] * (q[2] \div g) <= q[1] * (p[2] \div g)

FracAbs(p) == <<Abs(p[1]), p[2]>>

\* int(v): the fraction truncated towards zero
IntOf(p) == IF p[1] >= 0 THEN p[1] \div p[2] ELSE -((-p[1]) \div p[2])

\* The screen pyautogui.size() reports and the camera frame of the model.
screen_width == 1920
screen_height == 1080
frame_width == 640
frame_height == 480
active_zone_margin == 100
smoothing == 7
sensitivity_x == <<5, 2>>
sensitivity_y == <<5, 2>>

\* np.interp(v, [lo, hi], [0, dim]): linear inside, the end values outside
Interp(v, lo, hi, dim) ==
    IF v <= lo THEN FracInt(0)
    ELSE IF v >= hi THEN FracInt(dim)
    ELSE Frac((v - lo) * dim, hi - lo)

\* np.clip(v, lo, hi)
Clip(v, lo, hi) ==
    IF FracLess(v, FracInt(lo)) THEN FracInt(lo)
    ELSE IF FracLess(FracInt(hi), v) THEN FracInt(hi)
    ELSE v

\* Mutant: clamps first and applies the sensitivity afterwards.
TargetAxis_clamp_first(v, frame_dim, screen_dim, sensitivity) ==
    FracMul(Clip(Interp(v, active_zone_margin, frame_dim - active_zone_margin, screen_dim),
                 0, screen_dim - 1),
            sensitivity)

\* One axis of the lines that map, scale and clamp the finger position.
TargetAxis(v, frame_dim, screen_dim, sensitivity) ==
    Clip(FracMul(Interp(v, active_zone_margin, frame_dim - active_zone_margin, screen_dim),
                 sensitivity),
         0, screen_dim - 1)

Target(pos) ==
    <<TargetAxis(pos[1], frame_width, screen_width, sensitivity_x),
      TargetAxis(pos[2], frame_height, screen_height, sensitivity_y)>>

\* Mutant: multiplies the step by the smoothing factor.
SmoothAxis_multiplies(prev, t) == FracAdd(prev, FracMul(FracSub(t, prev), FracInt(smoothing)))

\* self.curr_x = self.prev_x + (x - self.prev_x) / self.smoothing
SmoothAxis(prev, t) == FracAdd(prev, FracDivInt(FracSub(t, prev), smoothing))

\* Finger positions handed to get_cursor_position in the model.
FingerXs == {50, 101, 111, 600}
FingerYs == {60, 114, 300}

MaxCursorCalls == 3

\* The assignments of get_cursor_position for the argument pos.
get_cursor_position(pos) ==
    /\ index_finger_pos' = pos
    /\ cursor_target' = Target(pos)
    /\ prev_x' = SmoothAxis(prev_x, cursor_target'[1])
    /\ prev_y' = SmoothAxis(prev_y, cursor_target'[2])
    /\ cursor_pos' = <<IntOf(prev_x'), IntOf(prev_y')>>
    /\ cursor_calls' = cursor_calls + 1

CallGetCursorPosition ==
    /\ cursor_calls < MaxCursorCalls
    /\ \E pos \in FingerXs \X FingerYs : get_cursor_position(pos)
    /\ op' = "get_cursor_position"
    /\ exc' = "none"
    /\ UNCHANGED <<appVars, session, landmark_list, fingers, gesture, gestureSmoothVars,
                   volumeSmoothVars, now, clickVars, scrollVars, frameVars>>

\* The cursor mapper on its own.
InitCursor == session = "mouse" /\ landmark_list = << >> /\ InitEngine
SpecCursor == InitCursor /\ [][CallGetCursorPosition]_vars

(***************************************************************************)
(* The frame loop of virtual_mouse.main                                    *)
(***************************************************************************)
detect_scroll_mode(fs) == Len(fs) = 5 /\ \A k \in 1..5 : fs[k] = 0

detect_right_click(fs) == Len(fs) = 5 /\ \A k \in 1..5 : fs[k] = 1

\* Mutant: the anchor is never taken to be missing.
ScrollAnchorUnset_never(anchor) == FALSE

\* if self.scroll_start_y == 0
ScrollAnchorUnset(anchor) == anchor = 0

\* int(delta_y / 10): the quotient truncated towards zero
ScrollAmount(delta_y) ==
    IF delta_y >= 0 THEN delta_y \div 10 ELSE -((-delta_y) \div 10)

\* Mutant: any movement away from the anchor scrolls.
ScrollDue_any(delta_y) == delta_y # 0

\* if abs(delta_y) > 20
ScrollDue(delta_y) == Abs(delta_y) > 20

\* The pyautogui calls of perform_scroll(current_y).
perform_scroll_emits(anchor, current_y) ==
    IF ScrollAnchorUnset(anchor) THEN << >>
    ELSE IF ScrollDue(anchor - current_y)
         THEN << <<"scroll", ScrollAmount(anchor - current_y), 0>> >>
         ELSE << >>

\* scroll_start_y after perform_scroll(current_y).
perform_scroll_anchor(anchor, current_y) ==
    IF ScrollAnchorUnset(anchor) THEN current_y
    ELSE IF ScrollDue(anchor - current_y) THEN current_y
    ELSE anchor

\* Mutant: the branches other than the fist leave the anchor alone.
ResetAnchor_keeps(anchor) == anchor

\* mouse.scroll_start_y = 0
ResetAnchor(anchor) == 0

\* Mutant: the right click does not look at the stored time.
RightClickDue_no_cooldown(current_time, last) == TRUE

\* Mutant: a right click exactly one cooldown after the last click fires.
RightClickDue_inclusive(current_time, last) == current_time - last >= click_cooldown

\* if current_time - mouse.last_click_time > mouse.click_cooldown
RightClickDue(current_time, last) == current_time - last > click_cooldown

\* Mutant: the index-finger test comes first in the chain.
FrameBranch_index_first(L) ==
    IF Len(L) = 0 THEN "No Hand"
    ELSE IF fingers_up(L)[2] = 1 THEN "Moving Cursor"
    ELSE IF detect_scroll_mode(fingers_up(L)) THEN "Scroll Mode"
    ELSE IF detect_right_click(fingers_up(L)) THEN "Right Click"
    ELSE "Idle"

\* The branch of the if/elif chain a frame takes.
FrameBranch(L) ==
    IF Len(L) = 0 THEN "No Hand"
    ELSE IF detect_scroll_mode(fingers_up(L)) THEN "Scroll Mode"
    ELSE IF detect_right_click(fingers_up(L)) THEN "Right Click"
    ELSE IF fingers_up(L)[2] = 1 THEN "Moving Cursor"
    ELSE "Idle"

\* Mutant: every frame with a hand moves the cursor.
FrameMovesCursor_any_hand(branch) == branch # "No Hand"

\* Only the index-finger branch calls get_cursor_position.
FrameMovesCursor(branch) == branch = "Moving Cursor"

\* A hand moved down the image by dy pixels.
ShiftY(L, dy) == [k \in 1..Len(L) |-> <<L[k][1], L[k][2], L[k][3] + dy>>]

\* Hands the frames of the model show: fists with the index tip at the
\* heights FistYs, an open palm, three pointing hands (thumb 10, 40 and 100
\* pixels from the index tip), a thumb alone, and no hand.
FistHand == MakeHand(110, 100, 100, 100, 100, 100, 100)
FistYs == {0, 30, 270, 275, 280, 300}
OpenPalm == MakeHand(90, 80, 100, 80, 80, 80, 80)
ThumbOnly == MakeHand(90, 100, 100, 100, 100, 100, 100)
PointerFrames ==
    {ShiftY(FistHand, y - JointY) : y \in FistYs}
        \cup {OpenPalm, ThumbOnly, << >>, PinchHand,
              MakeHand(90, 80, 130, 80, 100, 100, 100),
              MakeHand(100, 80, 200, 80, 100, 100, 100)}

FrameGaps == {3, 4}

MaxFrames == 3

\* One pass of the while loop, from cap.read() to the end of the if/else.
PointerFrame ==
    /\ session = "mouse"
    /\ frame_no < MaxFrames
    /\ \E L \in PointerFrames, gap \in FrameGaps :
        LET branch == FrameBranch(L) IN
        /\ landmark_list' = L
        /\ now' = now + gap
        /\ fingers' = IF Len(L) = 0 THEN fingers ELSE fingers_up(L)
        /\ IF FrameMovesCursor(branch)
           THEN get_cursor_position(<<LmX(L, 8), LmY(L, 8)>>)
           ELSE UNCHANGED cursorVars
        /\ CASE branch = "Scroll Mode" ->
                  /\ scroll_mode' = TRUE
                  /\ scroll_start_y' = perform_scroll_anchor(scroll_start_y, LmY(L, 8))
                  /\ emitted' = perform_scroll_emits(scroll_start_y, LmY(L, 8))
                  /\ mode' = "Scroll Mode"
                  /\ UNCHANGED clickVars
             [] branch = "Right Click" ->
                  /\ scroll_mode' = FALSE
                  /\ scroll_start_y' = ResetAnchor(scroll_start_y)
                  /\ last_click_time' =
                        IF RightClickDue(now', last_click_time) THEN now' ELSE last_click_time
                  /\ emitted' =
                        IF RightClickDue(now', last_click_time)
                        THEN << <<"rightClick", 0, 0>> >> ELSE << >>
                  /\ mode' = "Right Click"
                  /\ UNCHANGED <<clicked, click_log>>
             [] branch = "Moving Cursor" ->
                  /\ scroll_mode' = FALSE
                  /\ scroll_start_y' = ResetAnchor(scroll_start_y)
                  /\ clicked' = detect_left_click(L, now', last_click_time)
                  /\ last_click_time' = last_click_time_after(L, now', last_click_time)
                  /\ click_log' = Append(click_log,
                        [t |-> now', pinch |-> PinchDistance(L), fired |-> clicked'])
                  /\ emitted' = << <<"moveTo", cursor_pos'[1], cursor_pos'[2]>> >>
                        \o (IF clicked' THEN << <<"click", 0, 0>> >> ELSE << >>)
                  /\ mode' = IF clicked' THEN "Left Click" ELSE "Moving Cursor"
             [] OTHER ->
                  /\ scroll_mode' = FALSE
                  /\ scroll_start_y' = ResetAnchor(scroll_start_y)
                  /\ emitted' = << >>
                  /\ mode' = branch
                  /\ UNCHANGED clickVars
        /\ frame_no' = frame_no + 1
    /\ op' = "frame"
    /\ exc' = "none"
    /\ UNCHANGED <<appVars, session, gesture, gestureSmoothVars, volumeSmoothVars>>

\* The pointer application: frames one after another.
InitPointer == session = "mouse" /\ landmark_list = << >> /\ InitEngine
SpecPointer == InitPointer /\ [][PointerFrame]_vars

(***************************************************************************)
(* The pointer application with a pyautogui that is missing or whose calls *)
(* raise.  Nothing in virtual_mouse.py catches: the exception leaves       *)
(* main(), and run_virtual_mouse in main.py reports it and returns to the  *)
(* menu.                                                                   *)
(***************************************************************************)
\* The pyautogui calls a frame showing L at current_time makes, in order.
FrameCalls(L, current_time) ==
    LET branch == FrameBranch(L) IN
    IF branch = "Scroll Mode"
    THEN (IF perform_scroll_emits(scroll_start_y, LmY(L, 8)) # << >>
          THEN <<"scroll">> ELSE << >>)
    ELSE IF branch = "Right Click"
    THEN (IF RightClickDue(current_time, last_click_time) THEN <<"rightClick">> ELSE << >>)
    ELSE IF branch = "Moving Cursor"
    THEN <<"moveTo">> \o (IF detect_left_click(L, current_time, last_click_time)
                          THEN <<"click">> ELSE << >>)
    ELSE << >>

\* run_virtual_mouse: VirtualMouse() reads pyautogui.size() on line 32, a
\* NameError when the import on line 9 failed; main.py itself returns to
\* the menu when it cannot import pyautogui.
StartVirtualMouse ==
    /\ session = "menu"
    /\ \E PYAUTOGUI_AVAILABLE \in BOOLEAN :
        IF PYAUTOGUI_AVAILABLE
        THEN session' = "mouse" /\ exc' = "none"
        ELSE session' = "ended" /\ exc' = "NameError"
    /\ op' = "VirtualMouse"
    /\ UNCHANGED <<appVars, landmark_list, fingers, gesture, gestureSmoothVars,
                   volumeSmoothVars, pointerVars>>

\* A frame in which the k-th pyautogui call raises: the assignments before
\* the call are made, the rest of the frame is not, and the loop is left.
PointerFrameRaises ==
    /\ session = "mouse"
    /\ frame_no < MaxFrames
    /\ \E L \in PointerFrames, gap \in FrameGaps :
        \E k \in 1..Len(FrameCalls(L, now + gap)) :
            LET failing == FrameCalls(L, now + gap)[k] IN
            /\ landmark_list' = L
            /\ now' = now + gap
            /\ fingers' = fingers_up(L)
            /\ scroll_mode' = (failing = "scroll")
            /\ scroll_start_y' =
                  IF failing = "scroll" THEN scroll_start_y ELSE ResetAnchor(scroll_start_y)
            /\ IF failing \in {"moveTo", "click"}
               THEN get_cursor_position(<<LmX(L, 8), LmY(L, 8)>>)
               ELSE UNCHANGED cursorVars
            /\ IF failing = "click"
               THEN /\ clicked' = TRUE
                    /\ last_click_time' = now'
                    /\ click_log' = Append(click_log,
                          [t |-> now', pinch |-> TRUE, fired |-> TRUE])
                    /\ emitted' = << <<"moveTo", cursor_pos'[1], cursor_pos'[2]>> >>
               ELSE /\ UNCHANGED clickVars
                    /\ emitted' = << >>
    /\ session' = "ended"
    /\ exc' = "BackendError"
    /\ op' = "frame"
    /\ UNCHANGED <<appVars, gesture, gestureSmoothVars, volumeSmoothVars, mode, frame_no>>

InitPointerBackend == session = "menu" /\ landmark_list = << >> /\ InitEngine
NextPointerBackend == StartVirtualMouse \/ PointerFrame \/ PointerFrameRaises
SpecPointerBackend == InitPointerBackend /\ [][NextPointerBackend]_vars

(***************************************************************************)
(* VirtualPainter                                                          *)
(*                                                                         *)
(* The canvas is kept as the sequence of segments cv2.line wrote into it   *)
(* since it was last all black; a pixel holds the colour of the last       *)
(* segment that covers it, and black when none does.  Each segment carries *)
(* the number of the frame that wrote it.                                  *)
(***************************************************************************)
brush_thickness == 10
eraser_thickness == 50

color_names == <<"red", "green", "blue", "yellow", "white", "eraser">>

box_width == 100
box_height == 60
y_pos == 20
x_start == 50
spacing == 120

\* color_boxes[color_names[i + 1]]['pos'] after setup_color_palette
BoxPos(i) ==
    <<x_start + i * spacing, y_pos, x_start + i * spacing + box_width, y_pos + box_height>>

\* Mutant: the edges of a box belong to it.
InBox_with_edges(x, y, i) ==
    /\ BoxPos(i)[1] <= x /\ x <= BoxPos(i)[3]
    /\ BoxPos(i)[2] <= y /\ y <= BoxPos(i)[4]

\* if x1 < x < x2 and y1 < y < y2
InBox(x, y, i) ==
    /\ BoxPos(i)[1] < x /\ x < BoxPos(i)[3]
    /\ BoxPos(i)[2] < y /\ y < BoxPos(i)[4]

\* current_color after check_color_selection(x, y): the loop runs over the
\* boxes in insertion order and returns at the first hit.
check_color_selection(x, y, color) ==
    LET hits == {i \in 0..(Len(color_names) - 1) : InBox(x, y, i)}
    IN IF hits = {} THEN color
       ELSE colors[color_names[(CHOOSE i \in hits : \A j \in hits : i <= j) + 1]]

\* The branch of process_frame's if/elif chain.
PaintBranch(L) ==
    IF Len(L) = 0 THEN "No Hand"
    ELSE IF fingers_up(L)[2] = 1 /\ fingers_up(L)[3] = 1 THEN "Selection"
    ELSE IF fingers_up(L)[2] = 1 THEN "Draw"
    ELSE "Idle"

StripHeight == 100

\* Mutant: the row at the strip's height is drawn on too.
BelowStrip_inclusive(y_index) == y_index >= StripHeight

\* if y_index > 100
BelowStrip(y_index) == y_index > StripHeight

\* Mutant: every colour is drawn with the brush.
Thickness_brush_only(color) == brush_thickness

Thickness(color) == IF color = <<0, 0, 0>> THEN eraser_thickness ELSE brush_thickness

\* Mutant: the first segment survives the clear.
clear_canvas_keeps_first(c) == IF Len(c) = 0 THEN c ELSE <<c[1]>>

\* self.canvas.fill(0)
clear_canvas(c) == << >>

\* A hand moved by (dx, dy) pixels.
MoveHand(L, dx, dy) == [k \in 1..Len(L) |-> <<L[k][1], L[k][2] + dx, L[k][3] + dy>>]

\* Hands the painter's frames show: index and middle up, index alone, a
\* fist; the first two with the index fingertip at the listed pixels.
SelectHand == MakeHand(110, 100, 100, 80, 80, 100, 100)
DrawHand == MakeHand(110, 100, 100, 80, 100, 100, 100)
SelectTips == {<<100, 50>>, <<50, 50>>, <<700, 50>>, <<300, 300>>}
DrawTips == {<<200, 200>>, <<600, 400>>, <<200, 100>>}
PainterFrames ==
    {MoveHand(SelectHand, t[1] - 100, t[2] - 80) : t \in SelectTips}
        \cup {MoveHand(DrawHand, t[1] - 100, t[2] - 80) : t \in DrawTips}
        \cup {FistHand, << >>}

MaxPaintFrames == 4

\* process_frame up to the merge.  The merge and the overlays change only
\* the returned image; Merge below models the merge on one pixel.
PainterFrame ==
    /\ session = "painter"
    /\ frame_no < MaxPaintFrames
    /\ \E L \in PainterFrames :
        LET branch == PaintBranch(L)
            x_index == LmX(L, 8)
            y_index == LmY(L, 8)
        IN
        /\ landmark_list' = L
        /\ fingers' = IF Len(L) = 0 THEN fingers ELSE fingers_up(L)
        /\ CASE branch = "Selection" ->
                  /\ drawing' = FALSE
                  /\ current_color' = check_color_selection(x_index, y_index, current_color)
                  /\ painter_prev' = <<0, 0>>
                  /\ UNCHANGED canvas
             [] branch = "Draw" /\ BelowStrip(y_index) ->
                  LET start == IF painter_prev = <<0, 0>>
                               THEN <<x_index, y_index>> ELSE painter_prev
                  IN /\ canvas' = Append(canvas,
                            [from |-> start, to |-> <<x_index, y_index>>,
                             color |-> current_color,
                             thickness |-> Thickness(current_color),
                             frame |-> frame_no + 1])
                     /\ painter_prev' = <<x_index, y_index>>
                     /\ drawing' = TRUE
                     /\ UNCHANGED current_color
             [] branch = "Draw" /\ ~BelowStrip(y_index) ->
                  /\ painter_prev' = <<0, 0>>
                  /\ UNCHANGED <<canvas, current_color, drawing>>
             [] branch = "Idle" ->
                  /\ drawing' = FALSE
                  /\ painter_prev' = <<0, 0>>
                  /\ UNCHANGED <<canvas, current_color>>
             [] OTHER ->
                  UNCHANGED <<canvas, current_color, painter_prev, drawing>>
    /\ frame_no' = frame_no + 1
    /\ op' = "process_frame"
    /\ exc' = "none"
    /\ UNCHANGED <<session, gesture, gestureSmoothVars, volumeSmoothVars, cleared_at,
                   compositeVars, volumeCtlVars, now, clickVars, scrollVars, cursorVars,
                   mode, emitted>>

\* Key 'c' in main: painter.clear_canvas().
KeyClear ==
    /\ session = "painter"
    /\ cleared_at # frame_no
    /\ canvas' = clear_canvas(canvas)
    /\ cleared_at' = frame_no
    /\ op' = "clear_canvas"
    /\ exc' = "none"
    /\ UNCHANGED <<session, landmark_list, fingers, gesture, gestureSmoothVars,
                   volumeSmoothVars, pointerVars, current_color, painter_prev, drawing,
                   compositeVars, volumeCtlVars>>

InitPainterApp == session = "painter" /\ landmark_list = << >> /\ InitEngine
NextPainter == PainterFrame \/ KeyClear
SpecPainter == InitPainterApp /\ [][NextPainter]_vars

(***************************************************************************)
(* The merge of canvas and camera frame at the end of process_frame, on    *)
(* one pixel.  Pixels are <<b, g, r>> triples of 8-bit channels.           *)
(***************************************************************************)
\* cv2.cvtColor(canvas, COLOR_BGR2GRAY) on 8-bit pixels: the fixed-point
\* weights of 0.114 b + 0.587 g + 0.299 r, rounded.
Gray(px) == (1868 * px[1] + 9617 * px[2] + 4899 * px[3] + 8192) \div 16384

\* cv2.threshold(img_gray, 50, 255, THRESH_BINARY_INV)
ThresholdInv(g) == IF g > 50 THEN 0 ELSE 255

RECURSIVE BitAnd(_, _)
BitAnd(a, b) ==
    IF a = 0 \/ b = 0 THEN 0
    ELSE 2 * BitAnd(a \div 2, b \div 2) + (IF a % 2 = 1 /\ b % 2 = 1 THEN 1 ELSE 0)

RECURSIVE BitOr(_, _)
BitOr(a, b) ==
    IF a = 0 THEN b
    ELSE IF b = 0 THEN a
    ELSE 2 * BitOr(a \div 2, b \div 2) + (IF a % 2 = 1 \/ b % 2 = 1 THEN 1 ELSE 0)

\* img = bitwise_or(bitwise_and(img, img_inv), canvas)
MergePixel(img, c) ==
    [k \in 1..3 |-> BitOr(BitAnd(img[k], ThresholdInv(Gray(c))), c[k])]

\* Channel values of the camera pixel in the model; the canvas pixel holds
\* black or the colour of a segment.
ChannelValues == {0, 10, 200, 255}
CanvasPixels == {colors[color_names[k]] : k \in 1..Len(color_names)}

Merge ==
    /\ session = "painter"
    /\ \E img \in ChannelValues \X ChannelValues \X ChannelValues, c \in CanvasPixels :
        /\ frame_pixel' = img
        /\ canvas_pixel' = c
        /\ output_pixel' = MergePixel(img, c)
    /\ op' = "merge"
    /\ exc' = "none"
    /\ UNCHANGED <<session, landmark_list, fingers, gesture, gestureSmoothVars,
                   volumeSmoothVars, pointerVars, painterVars, volumeCtlVars>>

SpecMerge == InitPainterApp /\ [][Merge]_vars

(***************************************************************************)
(* VolumeController.set_volume and get_current_volume                      *)
(*                                                                         *)
(* The four backends (pycaw, winmm, pulse, osascript) are one backend      *)
(* whose call returns or raises; the except clauses catch what it raises.  *)
(***************************************************************************)
min_distance == 20
max_distance == 280

\* Mutant: interpolates from distance 0.
raw_vol_percentage_from_zero(d) == Clip(Interp(d, 0, max_distance, 100), 0, 100)

\* np.clip(np.interp(distance, [min_distance, max_distance], [0, 100]), 0, 100)
raw_vol_percentage(d) == Clip(Interp(d, min_distance, max_distance, 100), 0, 100)

\* Distances of the model: below, at and above the ends of the range, and
\* inside it where the percentage is a whole number (10 and 50), so that
\* the window holds whole numbers.
Distances == {10, 20, 46, 150, 280, 300}

\* Mutant: a change of exactly 2 is ignored too.
Insignificant_inclusive(vol_percentage, current) == Abs(vol_percentage - current) <= 2

\* if abs(vol_percentage - self.current_volume) < 2
Insignificant(vol_percentage, current) == Abs(vol_percentage - current) < 2

\* Mutant: every call hands its percentage to an available backend.
Dispatches_always(changed, available) == available

\* The try block is reached when the change is significant and the backend
\* is available.
Dispatches(changed, available) == changed /\ available

BackendOutcomes == {"returns", "raises"}

\* Levels the backend reports to get_current_volume.
SystemLevels == {30}

MaxFreeCalls == 3
MaxRepeatCalls == 9

CallSetVolume ==
    /\ session = "volume"
    /\ \E d \in Distances, outcome \in BackendOutcomes :
        LET raw == raw_vol_percentage(d)[1]
            window == push_volume(volume_history, raw)
            vol_percentage == smooth_volume(window, raw)
            changed == ~Insignificant(vol_percentage, current_volume)
            called == Dispatches(changed, volume_available)
        IN
        /\ \/ Len(volume_pushes) < MaxFreeCalls
           \/ /\ Len(volume_pushes) >= MaxFreeCalls
              /\ Len(volume_pushes) < MaxFreeCalls + MaxRepeatCalls
              /\ raw = volume_pushes[Len(volume_pushes)]
        /\ called \/ outcome = "returns"
        /\ distance' = d
        /\ volume_history' = window
        /\ smoothed_volume' = vol_percentage
        /\ volume_pushes' = Append(volume_pushes, raw)
        /\ current_volume' = IF changed THEN vol_percentage ELSE current_volume
        /\ dispatched' = IF called THEN Append(dispatched, vol_percentage) ELSE dispatched
        /\ volume_available' = (volume_available /\ ~(called /\ outcome = "raises"))
        /\ exc' = IF called /\ outcome = "raises" THEN "BackendError" ELSE "none"
        /\ volume_returned' = current_volume'
    /\ op' = "set_volume"
    /\ UNCHANGED <<session, landmark_list, fingers, gesture, gestureSmoothVars,
                   pointerVars, painterVars, compositeVars>>

CallGetCurrentVolume ==
    /\ session = "volume"
    /\ op # "get_current_volume"
    /\ \E outcome \in BackendOutcomes, level \in SystemLevels :
        /\ volume_available \/ outcome = "returns"
        /\ volume_returned' =
              IF volume_available /\ outcome = "returns" THEN level ELSE current_volume
        /\ exc' = IF volume_available /\ outcome = "raises" THEN "BackendError" ELSE "none"
    /\ op' = "get_current_volume"
    /\ UNCHANGED <<session, landmark_list, fingers, gesture, gestureSmoothVars,
                   volumeSmoothVars, pointerVars, painterVars, compositeVars,
                   current_volume, volume_available, dispatched, distance>>

InitVolume == session = "volume" /\ landmark_list = << >> /\ InitEngine
NextVolume == CallSetVolume \/ CallGetCurrentVolume
SpecVolume == InitVolume /\ [][NextVolume]_vars

(***************************************************************************)
(* Properties of the classifier.                                           *)
(***************************************************************************)
Recognized == op = "recognize_gesture"

\* The finger state and measurements of the frame, as the rules name them.
FrameFlags == fingers_up(landmark_list)
ThumbUp == FrameFlags[1] = 1
IndexUp == FrameFlags[2] = 1
MiddleUp == FrameFlags[3] = 1
RingUp == FrameFlags[4] = 1
PinkyUp == FrameFlags[5] = 1
UpCount == Cardinality({k \in 1..5 : FrameFlags[k] = 1})
ThumbTipLower == landmark_list[5][3] > landmark_list[4][3]
ThumbIndexDistSq ==
    LET dx == landmark_list[5][2] - landmark_list[9][2]
        dy == landmark_list[5][3] - landmark_list[9][3]
    IN dx * dx + dy * dy
Within40 == ThumbIndexDistSq < 1600

\* Rules 1..13 of the ordered list (rule 0 is the empty input).
RuleHolds(k) ==
    CASE k = 1 -> IndexUp /\ MiddleUp /\ ~ThumbUp /\ ~RingUp /\ ~PinkyUp
      [] k = 2 -> ThumbUp /\ ~IndexUp /\ ~MiddleUp /\ ~RingUp /\ ~PinkyUp
      [] k = 3 -> UpCount = 0 /\ ThumbTipLower
      [] k = 4 -> ThumbUp /\ IndexUp /\ Within40
      [] k = 5 -> IndexUp /\ PinkyUp /\ ~MiddleUp /\ ~RingUp
      [] k = 6 -> UpCount = 0
      [] k = 7 -> UpCount = 5
      [] k = 8 -> IndexUp /\ UpCount = 1
      [] k = 9 -> IndexUp /\ MiddleUp /\ RingUp /\ ~PinkyUp /\ ~ThumbUp
      [] k = 10 -> IndexUp /\ MiddleUp /\ RingUp /\ PinkyUp /\ ~ThumbUp
      [] k = 11 -> ThumbUp /\ PinkyUp /\ ~IndexUp /\ ~MiddleUp /\ ~RingUp
      [] k = 12 -> ThumbUp /\ IndexUp /\ ~MiddleUp /\ ~RingUp /\ ~PinkyUp
      [] OTHER -> TRUE

NamedGestures ==
    <<"Peace Sign", "Thumbs Up", "Thumbs Down", "OK Sign", "Rock Sign", "Fist",
      "Open Palm", "Pointing", "Three Fingers", "Four Fingers", "Call Me",
      "Finger Gun">>

RuleLabel(k) ==
    IF k = 0 THEN "No Hand"
    ELSE IF k <= Len(NamedGestures) THEN NamedGestures[k]
    ELSE ToString(UpCount) \o " Fingers Up"

FirstRule ==
    IF Len(landmark_list) = 0 THEN 0
    ELSE CHOOSE k \in 1..13 : RuleHolds(k) /\ \A j \in 1..(k - 1) : ~RuleHolds(j)

\* C1: recognize_gesture returns the label of the lowest-numbered rule of the
\* order No Hand, Peace Sign, Thumbs Up, Thumbs Down, OK Sign, Rock Sign,
\* Fist, Open Palm, Pointing, Three Fingers, Four Fingers, Call Me,
\* Finger Gun, '<count> Fingers Up' whose predicate holds: first match wins.
C1_FirstMatchWins ==
    Recognized => exc = "none" /\ gesture = RuleLabel(FirstRule)

\* A frame on which the OK Sign rule and the later Rock Sign rule both hold.
C1_Witness ==
    /\ Recognized
    /\ Len(landmark_list) = 21
    /\ RuleHolds(4) /\ RuleHolds(5)
    /\ gesture = "OK Sign"

\* C2: totality.  For a 21-point set recognize_gesture returns one label,
\* which is a named gesture or '<count> Fingers Up' with count the number of
\* up flags; for the empty set it returns 'No Hand'.
C2_Totality ==
    Recognized =>
        /\ exc = "none"
        /\ Len(landmark_list) = 0 => gesture = "No Hand"
        /\ Len(landmark_list) = 21 =>
            \/ gesture \in Range(NamedGestures)
            \/ gesture = ToString(UpCount) \o " Fingers Up"

\* A 21-point frame that falls through every named rule.
C2_Witness ==
    /\ Recognized
    /\ Len(landmark_list) = 21
    /\ gesture \notin Range(NamedGestures)
    /\ UpCount = 3

\* C3: thumb and index up with the tips closer than 40 px give 'OK Sign'
\* whatever the other three flags are; 'Finger Gun' is returned exactly when
\* thumb and index are up, the other three down and the distance at least 40.
C3_OkSignPreempts ==
    (Recognized /\ Len(landmark_list) = 21) =>
        /\ (ThumbUp /\ IndexUp /\ Within40) => gesture = "OK Sign"
        /\ gesture = "Finger Gun" <=>
            (ThumbUp /\ IndexUp /\ ~MiddleUp /\ ~RingUp /\ ~PinkyUp /\ ~Within40)

\* All five fingers up and the tips close: OK Sign, not Open Palm.
C3_Witness ==
    /\ Recognized
    /\ Len(landmark_list) = 21
    /\ UpCount = 5 /\ Within40
    /\ gesture = "OK Sign"

\* C4: with all five flags down the label is 'Thumbs Down' when the thumb tip
\* y is greater than the joint y and 'Fist' otherwise; 'Fist' is never
\* returned when the thumb tip is below its joint.
C4_ThumbsDownOrFist ==
    (Recognized /\ Len(landmark_list) = 21) =>
        /\ UpCount = 0 =>
            gesture = (IF ThumbTipLower THEN "Thumbs Down" ELSE "Fist")
        /\ gesture = "Fist" => ~ThumbTipLower

\* All flags down with the thumb tip below its joint.
C4_Witness ==
    /\ Recognized
    /\ Len(landmark_list) = 21
    /\ UpCount = 0 /\ ThumbTipLower
    /\ gesture = "Thumbs Down"

\* The flag of a comparison, as fingers_up reports it.
Flag(b) == IF b THEN 1 ELSE 0

C5_Flags ==
    (op = "fingers_up") =>
        /\ exc = "none"
        /\ Len(landmark_list) = 0 => fingers = << >>
        /\ Len(landmark_list) = 21 =>
            fingers = <<Flag(landmark_list[5][2] < landmark_list[4][2]),
                        Flag(landmark_list[9][3] < landmark_list[7][3]),
                        Flag(landmark_list[13][3] < landmark_list[11][3]),
                        Flag(landmark_list[17][3] < landmark_list[15][3]),
                        Flag(landmark_list[21][3] < landmark_list[19][3])>>

\* C5: fingers_up returns the empty list for the empty set and, for a
\* 21-point set, the 5 flags [thumb, index, middle, ring, pinky] with
\* thumb = (x of 4 < x of 3) and each other finger = (y of tip < y of PIP);
\* the call changes no engine state.
C5_FingersUp ==
    /\ []C5_Flags
    /\ [][CallFingersUp =>
            UNCHANGED <<session, landmark_list, gesture, gesture_history,
                        smoothed_gesture, volume_history, smoothed_volume>>]_vars

\* A 21-point frame with a mixed finger state.
C5_Witness ==
    /\ op = "fingers_up"
    /\ Len(landmark_list) = 21
    /\ fingers = <<1, 0, 1, 0, 1>>

\* C6: a non-empty list that is not 21 long is treated as 'no hand':
\* fingers_up returns the empty finger state, recognize_gesture returns
\* 'No Hand', and no index outside the list is read.
C6_MalformedIsNoHand ==
    (Len(landmark_list) \notin {0, 21}) =>
        /\ op = "fingers_up" => (exc = "none" /\ fingers = << >>)
        /\ op = "recognize_gesture" => (exc = "none" /\ gesture = "No Hand")

(***************************************************************************)
(* Properties of the smoothing windows.                                    *)
(***************************************************************************)
Smoothed == op = "smooth_gesture"

\* C7: when one label occurs strictly more often in the window than every
\* other label, smooth_gesture returns it.
C7_StrictMajority ==
    Smoothed =>
        \A x \in Range(gesture_history) :
            (\A y \in Range(gesture_history) \ {x} :
                Count(gesture_history, x) > Count(gesture_history, y))
            => smoothed_gesture = x

\* The pushes [A, A, B, A, B] return A.
C7_Witness ==
    /\ Smoothed
    /\ gesture_pushes = <<"Fist", "Fist", "Peace Sign", "Fist", "Peace Sign">>
    /\ smoothed_gesture = "Fist"

FirstIndex(h, x) == CHOOSE k \in 1..Len(h) : h[k] = x /\ \A j \in 1..(k - 1) : h[j] # x

Tied(h) == {x \in Range(h) : \A y \in Range(h) : Count(h, x) >= Count(h, y)}

\* C8: when labels tie for the highest count, smooth_gesture returns the
\* tied label whose first occurrence in the window has the smallest index.
C8_EarliestTiedLabel ==
    Smoothed =>
        \A y \in Tied(gesture_history) :
            FirstIndex(gesture_history, smoothed_gesture) <= FirstIndex(gesture_history, y)

\* C9: the label smooth_gesture returns is in the window as it stands after
\* the push.
C9_OutputInWindow ==
    Smoothed => smoothed_gesture \in Range(gesture_history)

\* A push that evicted the only occurrence of a label.
C9_Witness ==
    /\ Smoothed
    /\ Len(gesture_pushes) > 5
    /\ gesture_pushes[1] \notin Range(gesture_history)

LastN(s, n) == SubSeq(s, Len(s) - n + 1, Len(s))
Min(a, b) == IF a < b THEN a ELSE b

\* C10: after n pushes the gesture history is the last min(n, 5) pushed
\* labels in push order and the volume history the last min(n, 8) pushed
\* percentages in push order.
C10_BoundedFifo ==
    /\ gesture_history = LastN(gesture_pushes, Min(Len(gesture_pushes), 5))
    /\ volume_history = LastN(volume_pushes, Min(Len(volume_pushes), 8))

\* Nine pushes into the volume window: the first one is gone.
C10_Witness ==
    /\ Len(volume_pushes) = 9
    /\ volume_pushes[1] = 0
    /\ volume_pushes[2] = 75
    /\ Len(volume_history) = 8
    /\ volume_history[1] = 75

\* The last k pushes are one label, and the 5 pushes before them are one
\* other label: the window was full of it when the first of the k came.
SwitchedFor(k) ==
    LET n == Len(gesture_pushes) IN
    /\ n >= k + 5
    /\ gesture_pushes[n] # gesture_pushes[n - k]
    /\ \A j \in (n - k + 1)..n : gesture_pushes[j] = gesture_pushes[n]
    /\ \A j \in (n - k - 4)..(n - k) : gesture_pushes[j] = gesture_pushes[n - k]

\* C40: with the window full of label A, the first two pushes of another
\* label B return A and the third and later ones return B; and whenever
\* the last 5 pushes are one label, that label is returned.
C40_BoundedResponse ==
    Smoothed =>
        LET n == Len(gesture_pushes) IN
        /\ \A k \in 1..(n - 5) :
              SwitchedFor(k) =>
                  smoothed_gesture =
                      IF k <= 2 THEN gesture_pushes[n - k] ELSE gesture_pushes[n]
        /\ (n >= 5 /\ \A j \in (n - 4)..n : gesture_pushes[j] = gesture_pushes[n]) =>
              smoothed_gesture = gesture_pushes[n]

\* Five pushes of Fist, then the third push of Open Palm.
C40_Witness ==
    /\ Smoothed
    /\ gesture_pushes = <<"Fist", "Fist", "Fist", "Fist", "Fist",
                          "Open Palm", "Open Palm", "Open Palm">>
    /\ smoothed_gesture = "Open Palm"

(***************************************************************************)
(* Properties of the click debouncer.                                      *)
(***************************************************************************)
TipsSq(L) ==
    LET dx == L[5][2] - L[9][2]
        dy == L[5][3] - L[9][3]
    IN dx * dx + dy * dy

PinchesAt_0_4_7 ==
    /\ Len(click_log) = 3
    /\ \A k \in 1..3 : click_log[k].pinch
    /\ click_log[2].t - click_log[1].t = 4
    /\ click_log[3].t - click_log[1].t = 7

\* C12: from a freshly constructed debouncer with cooldown 0.3 s, pinches at
\* t = 0 and t = 0.2 give exactly one click (at t = 0) and a pinch at
\* t = 0.35 gives a second click.
C12_DebounceScenario ==
    PinchesAt_0_4_7 =>
        /\ click_log[1].fired
        /\ ~click_log[2].fired
        /\ click_log[3].fired

C12_Witness ==
    /\ PinchesAt_0_4_7
    /\ last_click_time = click_log[3].t

(***************************************************************************)
(* Properties of the pointer loop.                                         *)
(***************************************************************************)
FrameStep == frame_no' # frame_no

FistFrame == mode = "Scroll Mode"

\* y of the index fingertip in the frame just processed
TipY == landmark_list[9][3]

Fired(name) == \E k \in 1..Len(emitted) : emitted[k][1] = name

Scrolls == {k \in 1..Len(emitted) : emitted[k][1] = "scroll"}

\* C13 as stated: last_click_time changes only in a step in which the left
\* click debouncer fires; every other step, a right-click frame included,
\* leaves it unchanged.
C13_OnlyLeftClickWrites ==
    [][last_click_time' # last_click_time => clicked' /\ Fired("click")']_vars

\* C13 (amended): last_click_time changes only in a step that fires a click,
\* and becomes the time of that step: a left click fired by the debouncer,
\* or a right click, which a right-click frame fires exactly when more than
\* the cooldown has passed since the stored time.  All other steps leave it
\* unchanged.
C13_OnlyClicksWrite ==
    [][/\ last_click_time' # last_click_time =>
            /\ last_click_time' = now'
            /\ \/ mode' = "Left Click" /\ clicked' /\ Fired("click")'
               \/ mode' = "Right Click" /\ Fired("rightClick")'
       /\ (FrameStep /\ mode' = "Right Click") =>
            /\ Fired("rightClick")' <=> (now' - last_click_time > 6)
            /\ Fired("rightClick")' => last_click_time' = now'
       /\ (FrameStep /\ mode' \in {"Scroll Mode", "Idle", "No Hand", "Moving Cursor"}) =>
            last_click_time' = last_click_time]_vars

\* A right click exactly one cooldown after a left click that is not fired,
\* with the stored time still that of the left click.
C13_Witness ==
    /\ frame_no = 3
    /\ mode = "Right Click"
    /\ ~Fired("rightClick")
    /\ now - last_click_time = 6

\* C14: a fist frame that finds no anchor stores the current fingertip y as
\* the anchor and emits no scroll.
C14_FirstFistAnchors ==
    [][(FrameStep /\ FistFrame' /\ scroll_start_y = 0) =>
            /\ scroll_start_y' = TipY'
            /\ emitted' = << >>]_vars

C14_Witness ==
    /\ frame_no = 1
    /\ FistFrame
    /\ scroll_start_y = 300
    /\ emitted = << >>

Quotient10(d) == IF d >= 0 THEN d \div 10 ELSE -((-d) \div 10)

\* C15: a fist frame that follows a fist frame (the anchor is set) takes
\* delta = anchor - current y; when |delta| > 20 it emits exactly one scroll
\* of the signed integer quotient delta / 10 and re-anchors at the current y,
\* otherwise it emits nothing and keeps the anchor.
C15_ScrollByDelta ==
    [][(FrameStep /\ FistFrame /\ FistFrame') =>
            LET delta == scroll_start_y - TipY' IN
            IF delta > 20 \/ delta < -20
            THEN /\ emitted' = << <<"scroll", Quotient10(delta), 0>> >>
                 /\ scroll_start_y' = TipY'
            ELSE /\ emitted' = << >>
                 /\ scroll_start_y' = scroll_start_y]_vars

\* C16: after every frame that is not a fist frame the anchor is unset and
\* scroll_mode is false, and the first fist frame after such a frame only
\* re-anchors: it emits no scroll.
C16_NonFistResets ==
    /\ [](mode \in {"Right Click", "Moving Cursor", "Left Click", "Idle", "No Hand"} =>
            scroll_start_y = 0 /\ ~scroll_mode)
    /\ [][(FrameStep /\ FistFrame' /\ ~FistFrame) =>
            /\ emitted' = << >>
            /\ scroll_start_y' = TipY'
            /\ scroll_mode']_vars

\* Fist, open palm, fist 30 pixels higher: the third frame only re-anchors.
C16_Witness ==
    /\ frame_no = 3
    /\ FistFrame
    /\ scroll_start_y = 270
    /\ emitted = << >>
    /\ now - last_click_time \in {3, 4}

\* C17: the anchor a fist frame leaves is a set anchor, also at y = 0: it is
\* never the value the code takes for "no anchor".
C17_ZeroIsAnAnchor == FistFrame => ~ScrollAnchorUnset(scroll_start_y)

\* C20: a frame that scrolls, right-clicks, idles or sees no hand leaves
\* (prev_x, prev_y) unchanged; only get_cursor_position writes them.
C20_OnlyCursorMoves ==
    [][/\ (FrameStep /\ mode' \in {"Scroll Mode", "Right Click", "Idle", "No Hand"}) =>
            UNCHANGED <<prev_x, prev_y>>
       /\ <<prev_x, prev_y>>' # <<prev_x, prev_y>> =>
            /\ cursor_calls' = cursor_calls + 1
            /\ mode' \in {"Moving Cursor", "Left Click"}]_vars

\* A moved cursor followed by a fist frame: the stored position is still
\* the moved one.
C20_Witness ==
    /\ frame_no = 2
    /\ FistFrame
    /\ cursor_calls = 1
    /\ prev_x # <<0, 1>>

\* The frame just processed shows thumb tip and index tip less than 40
\* pixels apart.
PinchSeen == Len(landmark_list) = 21 /\ Within40

ClickEvents == {k \in 1..Len(emitted) : emitted[k][1] \in {"click", "rightClick"}}

\* C32: a left click is emitted only in a frame that shows the pinch itself
\* and comes at least click_cooldown after the stored click time.  A pinch
\* shown inside the cooldown emits nothing and leaves the stored time as it
\* was, so nothing of it remains for a later frame to act on.
C32_NoQueuedClick ==
    [][FrameStep =>
         /\ Fired("click")' =>
               PinchSeen' /\ now' - last_click_time >= click_cooldown
         /\ (PinchSeen' /\ now' - last_click_time < click_cooldown) =>
               /\ ~Fired("click")'
               /\ last_click_time' = last_click_time]_vars

\* A click, then a pinch inside the cooldown, then a frame after the
\* cooldown without the pinch: no click in it.
C32_Witness ==
    /\ frame_no = 3
    /\ Len(click_log) = 3
    /\ click_log[1].fired
    /\ click_log[2].pinch /\ ~click_log[2].fired
    /\ ~click_log[3].pinch
    /\ click_log[3].t - click_log[1].t >= click_cooldown
    /\ ~Fired("click")

\* C33: every click event, left or right, stores its time in the one
\* last_click_time, nothing else writes that variable, a frame emits at most
\* one click event, and a click event happens only click_cooldown or more
\* after the stored time: two consecutive click events of either kind are
\* at least click_cooldown apart.
C33_SharedCooldown ==
    [][FrameStep =>
         /\ Cardinality(ClickEvents') <= 1
         /\ ClickEvents' # {} =>
               /\ now' - last_click_time >= click_cooldown
               /\ last_click_time' = now'
         /\ ClickEvents' = {} => last_click_time' = last_click_time]_vars

\* A right click 7 or 8 ticks after a left click.
C33_Witness ==
    /\ mode = "Right Click"
    /\ Fired("rightClick")
    /\ \E k \in 1..Len(click_log) :
          click_log[k].fired /\ now - click_log[k].t \in {7, 8}

AllFlags(fs, v) == Len(fs) = 5 /\ \A k \in 1..5 : fs[k] = v

\* C34: a frame takes the scroll mode when the hand is a fist, else the
\* right-click mode when all five fingers are up, else the cursor move when
\* the index finger is up; at most one of scroll, right click and move_to
\* is emitted; a left click is emitted only as the second call of a
\* cursor-move frame, after its move_to, and never in a frame that shows
\* the pinch in a fist or with all five fingers up.
C34_OneModePerFrame ==
    [][FrameStep =>
         LET fist == AllFlags(fingers', 0)
             palm == AllFlags(fingers', 1)
             hand == Len(landmark_list') # 0
             move == hand /\ ~fist /\ ~palm /\ fingers'[2] = 1
         IN /\ (mode' = "Scroll Mode") <=> (hand /\ fist)
            /\ (mode' = "Right Click") <=> (hand /\ ~fist /\ palm)
            /\ (mode' \in {"Moving Cursor", "Left Click"}) <=> move
            /\ Fired("scroll")' => mode' = "Scroll Mode"
            /\ Fired("rightClick")' => mode' = "Right Click"
            /\ Fired("moveTo")' <=> move
            /\ Cardinality({n \in {"scroll", "rightClick", "moveTo"} : Fired(n)'}) <= 1
            /\ Fired("click")' =>
                  /\ move
                  /\ Len(emitted') = 2
                  /\ emitted'[1][1] = "moveTo"
                  /\ emitted'[2][1] = "click"
            /\ (PinchSeen' /\ hand /\ (fist \/ palm)) => ~Fired("click")']_vars

\* The pinch shown with all five fingers up, after the cooldown: a right
\* click and nothing else.
C34_Witness ==
    /\ mode = "Right Click"
    /\ PinchSeen
    /\ AllFlags(fingers, 1)
    /\ Len(emitted) = 1
    /\ Fired("rightClick")

\* C36: a scroll emitted by a fist frame has magnitude at least 2 and the
\* sign of anchor - current y.
C36_ScrollAtLeastTwo ==
    [][FrameStep =>
         \A k \in Scrolls' :
            LET amount == emitted'[k][2]
                delta == scroll_start_y - TipY'
            IN \/ amount >= 2 /\ delta > 0
               \/ amount <= -2 /\ delta < 0]_vars

\* The smallest scroll: the fist moved up by 25 pixels.
C36_Witness ==
    /\ FistFrame
    /\ Len(emitted) = 1
    /\ emitted[1] = <<"scroll", 2, 0>>

(***************************************************************************)
(* Properties of the cursor mapper.                                        *)
(***************************************************************************)
CursorCalled == op = "get_cursor_position"

\* The fingertip remapped from the active zone to the screen, on one axis,
\* as a fraction: 0 below the zone, dim above it, linear in between.
Remap(v, frame_dim, dim) ==
    IF v <= 100 THEN <<0, 1>>
    ELSE IF v >= frame_dim - 100 THEN <<dim, 1>>
    ELSE Frac((v - 100) * dim, frame_dim - 200)

ClampTo(v, hi) ==
    IF v[1] < 0 THEN <<0, 1>>
    ELSE IF v[1] > hi * v[2] THEN <<hi, 1>>
    ELSE v

Times5Over2(v) == Frac(5 * v[1], 2 * v[2])

InScreen(t) ==
    /\ 0 <= t[1][1] /\ t[1][1] <= (screen_width - 1) * t[1][2]
    /\ 0 <= t[2][1] /\ t[2][1] <= (screen_height - 1) * t[2][2]

Dist(p, q) == FracAbs(FracSub(p, q))

NoOvershoot(before, after, t) ==
    /\ FracLeq(before, t) => FracLeq(after, t)
    /\ FracLeq(t, before) => FracLeq(t, after)

CursorStep == op' = "get_cursor_position" /\ cursor_calls' # cursor_calls

\* C19 as stated: on every call the distance between the stored position and
\* the target strictly decreases on each axis, and the target is not passed.
C19_StrictlyCloser ==
    [][CursorStep =>
            /\ FracLess(Dist(prev_x', cursor_target'[1]), Dist(prev_x, cursor_target'[1]))
            /\ FracLess(Dist(prev_y', cursor_target'[2]), Dist(prev_y, cursor_target'[2]))
            /\ NoOvershoot(prev_x, prev_x', cursor_target'[1])
            /\ NoOvershoot(prev_y, prev_y', cursor_target'[2])]_vars

CloserAxis(before, after, t) ==
    /\ FracLeq(Dist(after, t), Dist(before, t))
    /\ FracLeq(FracInt(1), Dist(before, t)) => FracLess(Dist(after, t), Dist(before, t))
    /\ (before = t) => (after = t)
    /\ NoOvershoot(before, after, t)

\* C19 (amended): on every call, on each axis, the distance to the target
\* does not increase and the target is not passed; the distance strictly
\* decreases when it is at least one pixel, and a position equal to the
\* target stays there.
C19_CloserOrThere ==
    [][CursorStep =>
            /\ CloserAxis(prev_x, prev_x', cursor_target'[1])
            /\ CloserAxis(prev_y, prev_y', cursor_target'[2])]_vars

\* Three calls with the same fingertip: x approaches, y has been at 0 throughout.
C19_Witness ==
    /\ CursorCalled
    /\ cursor_calls = 3
    /\ index_finger_pos = <<111, 60>>
    /\ prev_y = <<0, 1>>
    /\ cursor_target[2] = <<0, 1>>
    /\ FracLess(<<0, 1>>, prev_x) /\ FracLess(prev_x, cursor_target[1])

PaintStep == op' = "process_frame" /\ frame_no' # frame_no

NoPoint == <<0, 0>>

HandSeen(L) == Len(L) # 0

IndexRaised(L) == L[9][3] < L[7][3]

MiddleRaised(L) == L[13][3] < L[11][3]

IndexTip(L) == <<L[9][2], L[9][3]>>

\* A Draw frame with the fingertip below the palette strip.
DrawsBelowStrip(L) ==
    HandSeen(L) /\ IndexRaised(L) /\ ~MiddleRaised(L) /\ IndexTip(L)[2] > 100

SegmentWritten == Len(canvas') = Len(canvas) + 1

LastSegment(c) == c[Len(c)]

\* C21: every segment written joins the fingertip positions of two
\* consecutive frames that were both Draw frames below the strip (or starts
\* a stroke at its own point), and after every frame that is not such a
\* Draw frame, a frame without a hand included, the previous point is none.
C21_StrokesJoinConsecutiveDraws ==
    [][PaintStep =>
            /\ SegmentWritten =>
                 /\ LastSegment(canvas').to = IndexTip(landmark_list')
                 /\ \/ LastSegment(canvas').from = IndexTip(landmark_list')
                    \/ /\ DrawsBelowStrip(landmark_list)
                       /\ LastSegment(canvas').from = IndexTip(landmark_list)
            /\ ~DrawsBelowStrip(landmark_list') => painter_prev' = NoPoint]_vars

PaletteColours ==
    {<<0, 0, 255>>, <<0, 255, 0>>, <<255, 0, 0>>, <<0, 255, 255>>, <<255, 255, 255>>,
     <<0, 0, 0>>}

\* The six boxes: 100 wide, 120 apart from x = 50, rows 20 to 80.
PaletteBoxes ==
    <<[x1 |-> 50, x2 |-> 150, c |-> <<0, 0, 255>>],
      [x1 |-> 170, x2 |-> 270, c |-> <<0, 255, 0>>],
      [x1 |-> 290, x2 |-> 390, c |-> <<255, 0, 0>>],
      [x1 |-> 410, x2 |-> 510, c |-> <<0, 255, 255>>],
      [x1 |-> 530, x2 |-> 630, c |-> <<255, 255, 255>>],
      [x1 |-> 650, x2 |-> 750, c |-> <<0, 0, 0>>]>>

Inside(t, b) == b.x1 < t[1] /\ t[1] < b.x2 /\ 20 < t[2] /\ t[2] < 80

\* C22: a Selection frame leaves the buffer as it was, resets the previous
\* point to none and sets the current colour to that of the box whose
\* interior holds the index fingertip, or leaves it when no box does; the
\* current colour is always one of the six palette colours.
C22_SelectionPicksColour ==
    /\ [](current_color \in PaletteColours)
    /\ [][(PaintStep /\ HandSeen(landmark_list') /\ IndexRaised(landmark_list')
                /\ MiddleRaised(landmark_list')) =>
            /\ canvas' = canvas
            /\ painter_prev' = NoPoint
            /\ \A k \in 1..6 :
                 Inside(IndexTip(landmark_list'), PaletteBoxes[k]) =>
                     current_color' = PaletteBoxes[k].c
            /\ (\A k \in 1..6 : ~Inside(IndexTip(landmark_list'), PaletteBoxes[k])) =>
                     current_color' = current_color]_vars

\* A selection of the eraser box over a canvas that holds a segment.
C22_Witness ==
    /\ op = "process_frame"
    /\ Len(canvas) = 1
    /\ HandSeen(landmark_list) /\ IndexTip(landmark_list) = <<700, 50>>
    /\ current_color = <<0, 0, 0>>
    /\ painter_prev = NoPoint

\* C23: a Draw frame with the fingertip below the strip appends one segment
\* from the previous point (the current point when there is none) to the
\* current point, in the current colour, 50 wide for the eraser colour and
\* 10 wide otherwise, and makes the current point the previous point; with
\* the fingertip in the strip it writes nothing and resets the previous
\* point.
C23_DrawFrame ==
    [][(PaintStep /\ HandSeen(landmark_list') /\ IndexRaised(landmark_list')
            /\ ~MiddleRaised(landmark_list')) =>
            LET tip == IndexTip(landmark_list') IN
            IF tip[2] > 100
            THEN /\ SegmentWritten
                 /\ SubSeq(canvas', 1, Len(canvas)) = canvas
                 /\ LastSegment(canvas').from =
                        (IF painter_prev = NoPoint THEN tip ELSE painter_prev)
                 /\ LastSegment(canvas').to = tip
                 /\ LastSegment(canvas').color = current_color
                 /\ LastSegment(canvas').thickness =
                        (IF current_color = <<0, 0, 0>> THEN 50 ELSE 10)
                 /\ painter_prev' = tip
                 /\ current_color' = current_color
            ELSE /\ canvas' = canvas
                 /\ painter_prev' = NoPoint]_vars

\* The eraser picked, then a stroke of two Draw frames: the second segment
\* is 50 wide and joins the two fingertips.
C23_Witness ==
    /\ frame_no = 3
    /\ Len(canvas) = 2
    /\ canvas[2].thickness = 50
    /\ canvas[2].from = <<200, 200>>
    /\ canvas[2].to = <<600, 400>>
    /\ painter_prev = <<600, 400>>

\* C24: clear_canvas leaves the buffer all black and the current colour as
\* it was, and every segment in the buffer was written after the last clear.
C24_ClearEmpties ==
    /\ [](\A k \in 1..Len(canvas) : canvas[k].frame > cleared_at)
    /\ [][op' = "clear_canvas" /\ cleared_at' # cleared_at =>
            /\ canvas' = << >>
            /\ current_color' = current_color]_vars

\* A stroke cut by a clear: the buffer holds only the part drawn after it.
C24_Witness ==
    /\ cleared_at = 2
    /\ frame_no = 3
    /\ Len(canvas) = 1
    /\ canvas[1].frame = 3
    /\ canvas[1].from # canvas[1].to

\* C25: in the merged image a black buffer pixel shows the camera pixel, and
\* a buffer pixel holding red, green, blue, yellow or white replaces it,
\* whatever the camera pixel is.
C25_OpaqueStrokes ==
    op = "merge" =>
        /\ canvas_pixel = <<0, 0, 0>> => output_pixel = frame_pixel
        /\ canvas_pixel \in {<<0, 0, 255>>, <<0, 255, 0>>, <<255, 0, 0>>, <<0, 255, 255>>,
                             <<255, 255, 255>>} => output_pixel = canvas_pixel

\* C37: the stored previous stroke point is (0, 0), which stands for no
\* point, or a point with y > 100; a stored stroke point is never (0, 0).
C37_StoredPointBelowStrip ==
    painter_prev = NoPoint \/ painter_prev[2] > 100

\* A stroke point was stored at (200, 200); the next Draw frame has the
\* fingertip at y = 100, on the strip's last row, and stores no point.
C37_Witness ==
    /\ frame_no = 2
    /\ Len(canvas) = 1
    /\ canvas[1].to = <<200, 200>>
    /\ HandSeen(landmark_list)
    /\ IndexTip(landmark_list) = <<200, 100>>
    /\ IndexRaised(landmark_list) /\ ~MiddleRaised(landmark_list)
    /\ painter_prev = NoPoint

(***************************************************************************)
(* Properties of the volume controller.                                    *)
(***************************************************************************)
SetVolumeCalled == op = "set_volume"

SetVolumeStep == op' = "set_volume" /\ Len(volume_pushes') = Len(volume_pushes) + 1

LastPushed == volume_pushes[Len(volume_pushes)]

\* C26: the raw percentage is the distance interpolated from [20, 280] onto
\* [0, 100] and clamped; the first set_volume of a fresh controller returns
\* 0 for distance 20, 100 for 280 and 50 for 150.
C26_RawPercentage ==
    SetVolumeCalled =>
        /\ distance <= 20 => LastPushed = 0
        /\ distance >= 280 => LastPushed = 100
        /\ (20 < distance /\ distance < 280) => 260 * LastPushed = 100 * (distance - 20)
        /\ Len(volume_pushes) = 1 =>
             /\ distance = 20 => volume_returned = 0
             /\ distance = 280 => volume_returned = 100
             /\ distance = 150 => volume_returned = 50

\* The first call of a fresh controller, with distance 280.
C26_Witness ==
    /\ SetVolumeCalled
    /\ Len(volume_pushes) = 1
    /\ distance = 280
    /\ volume_returned = 100

\* C27 as stated: a smoothed percentage less than 2 from the current one
\* changes nothing, dispatches nothing and returns the held percentage;
\* otherwise the current percentage becomes the smoothed one and that value
\* is dispatched to the backend.
C27_ChangeIsDispatched ==
    [][SetVolumeStep =>
            IF smoothed_volume' - current_volume < 2 /\ current_volume - smoothed_volume' < 2
            THEN /\ current_volume' = current_volume
                 /\ dispatched' = dispatched
                 /\ volume_returned' = current_volume
            ELSE /\ current_volume' = smoothed_volume'
                 /\ dispatched' = Append(dispatched, smoothed_volume')]_vars

\* C27 (amended): a smoothed percentage less than 2 from the current one
\* changes nothing, dispatches nothing and returns the held percentage;
\* otherwise the current percentage becomes the smoothed one and is
\* returned, and that value is handed to the backend exactly when
\* volume_available is true.
C27_Hysteresis ==
    [][SetVolumeStep =>
            IF smoothed_volume' - current_volume < 2 /\ current_volume - smoothed_volume' < 2
            THEN /\ current_volume' = current_volume
                 /\ dispatched' = dispatched
                 /\ volume_returned' = current_volume
            ELSE /\ current_volume' = smoothed_volume'
                 /\ volume_returned' = smoothed_volume'
                 /\ volume_available => dispatched' = Append(dispatched, smoothed_volume')
                 /\ ~volume_available => dispatched' = dispatched]_vars

\* A change of 1 held back after a dispatched change, and a change of
\* exactly 2 dispatched.
C27_Witness ==
    /\ SetVolumeCalled
    /\ Len(dispatched) >= 1
    /\ \/ smoothed_volume - current_volume = 1
       \/ /\ smoothed_volume = current_volume
          /\ Len(dispatched) >= 2
          /\ dispatched[Len(dispatched)] - dispatched[Len(dispatched) - 1] = 2

SameLastPushes(n) ==
    /\ Len(volume_pushes) >= n
    /\ \A k \in (Len(volume_pushes) - n + 1)..Len(volume_pushes) :
         volume_pushes[k] = LastPushed

\* C28: from the ninth consecutive set_volume call with the same distance
\* on, the returned percentage is the one the eighth call returned.
C28_StableAfterWindow ==
    [][SetVolumeStep /\ SameLastPushes(9)' =>
            /\ current_volume' = current_volume
            /\ volume_returned' = current_volume']_vars

\* Twelve calls, the last ten with the same distance: the window holds
\* that percentage alone and the controller has settled on it.
C28_Witness ==
    /\ SetVolumeCalled
    /\ Len(volume_pushes) = 12
    /\ SameLastPushes(9)
    /\ volume_pushes[2] # LastPushed
    /\ current_volume = LastPushed
    /\ volume_history = [k \in 1..8 |-> LastPushed]

\* C29: a controller without backend, or whose backend call failed in
\* set_volume or in get_current_volume, has volume_available false from
\* then on and hands nothing to the backend, while set_volume goes on
\* tracking and returning the percentage.
C29_PermanentFallback ==
    [][/\ exc' = "BackendError" => ~volume_available'
       /\ ~volume_available => (~volume_available' /\ dispatched' = dispatched)
       /\ SetVolumeStep => volume_returned' = current_volume']_vars

\* C38: the controller starts at 50; after any set_volume calls the
\* current percentage is a whole number from 0 to 100, and so is what every
\* set_volume call returned.
C38_PercentageInRange ==
    /\ current_volume \in 0..100
    /\ SetVolumeCalled => volume_returned \in 0..100

\* The top of the range is reached and returned.
C38_Witness ==
    /\ SetVolumeCalled
    /\ distance = 300
    /\ current_volume = 100
    /\ volume_returned = 100

\* C39: a set_volume call on an available backend that does not fail hands
\* a level to the backend exactly when it changes the current percentage,
\* and the level is the new current percentage; while the backend is
\* available, the last level handed to it is the current percentage.
C39_DispatchTracksCurrent ==
    /\ []((volume_available /\ dispatched # << >>) =>
            dispatched[Len(dispatched)] = current_volume)
    /\ [][(SetVolumeStep /\ volume_available /\ volume_available') =>
            /\ (dispatched' # dispatched) <=> (current_volume' # current_volume)
            /\ dispatched' # dispatched =>
                  dispatched' = Append(dispatched, current_volume')]_vars

\* Three calls on an available backend: one kept the percentage and handed
\* nothing over, two changed it and handed the new value over.
C39_Witness ==
    /\ SetVolumeCalled
    /\ volume_available
    /\ Len(volume_pushes) = 3
    /\ Len(dispatched) = 2
    /\ dispatched[1] # dispatched[2]
    /\ dispatched[2] = current_volume

(***************************************************************************)
(* Properties of the pointer application's backend handling.               *)
(***************************************************************************)
\* C30: with pyautogui missing, or after one of its calls has failed, the
\* pointer session is still running (display only): it has not ended with
\* the error.
C30_DegradesAndContinues ==
    exc \in {"NameError", "BackendError"} => session = "mouse"

====
